---- MODULE Spec2Model ----
(***************************************************************************)
(* gedcom2gtr: the two-pass loader of load_gedcom, the generation counters *)
(* of Person, the depth-bounded sandclock serializer and the dynamic       *)
(* generation-limit policy of main.                                        *)
(*                                                                         *)
(* Persons are the individuals 1..NumPersons of the input file.  Families  *)
(* are identified by the position of their FAM record, which is also the   *)
(* order in which load_gedcom creates the Family objects.  The output      *)
(* string is kept as the sequence of the pieces that the code joins.       *)
(***************************************************************************)
EXTENDS Integers, Sequences, FiniteSets, TLC

\* ---------------------------------------------------------------- bounds

NumPersons == 3
MaxFams == 2
MaxChil == 2
MaxLimit == 2

Persons == 1..NumPersons
\* An xref that no INDI record of the file carries.
Dangling == NumPersons + 1
Xrefs == Persons \cup {Dangling}
\* "No such sub-tag" / Python's None for a person or family reference.
None == 0
Limits == (-1)..MaxLimit

VARIABLES
    pc,               \* where main stands
    id_to_person,     \* the person index of load_gedcom (set of ids)
    gtr_fields,       \* Person.gtr_fields, per person
    families,         \* the Family objects, in creation order
    parent_families,  \* Person.parent_families, per person: family positions
    child_family,     \* Person.child_family, per person: a position or None
    args,             \* the command line of main
    limits,           \* max_ancestor_generations / max_descendant_generations
    output,           \* what main wrote to output_file
    warnings          \* the WARNING lines that get_parent_family printed

vars == <<pc, id_to_person, gtr_fields, families, parent_families,
          child_family, args, limits, output, warnings>>

graph == <<id_to_person, gtr_fields, families, parent_families, child_family>>

\* ------------------------------------------------------------- utilities

Max(a, b) == IF a >= b THEN a ELSE b

RECURSIVE Flatten(_)
Flatten(ss) == IF ss = <<>> THEN <<>> ELSE Head(ss) \o Flatten(Tail(ss))

SeqsUpTo(S, n) == UNION {[1..k -> S] : k \in 0..n}

\* ---------------------------------------------------------------- events

\* The date of an event: no DATE sub-tag (None), or a DateValue, which is a
\* date phrase or a simple date with the calendar date it carries: the bc
\* flag, the year, the month name or "" for none, the day or None.  The
\* place is the text of the PLAC sub-tag, empty without one.
NoDate == [kind |-> "None"]
SimpleDate(bc, year, month, day) ==
    [kind |-> "Simple", bc |-> bc, year |-> year, month |-> month, day |-> day]
PhraseDate(phrase) == [kind |-> "Phrase", phrase |-> phrase]

NoEvent == [date |-> NoDate, place |-> ""]

\* _MONTH_NAME_TO_NUMBER
MonthNumber(month) ==
    CASE month = "JAN" -> 1 [] month = "FEB" -> 2 [] month = "MAR" -> 3
      [] month = "APR" -> 4 [] month = "MAY" -> 5 [] month = "JUN" -> 6
      [] month = "JUL" -> 7 [] month = "AUG" -> 8 [] month = "SEP" -> 9
      [] month = "OCT" -> 10 [] month = "NOV" -> 11 [] month = "DEC" -> 12

Digit(d) ==
    CASE d = 0 -> "0" [] d = 1 -> "1" [] d = 2 -> "2" [] d = 3 -> "3"
      [] d = 4 -> "4" [] d = 5 -> "5" [] d = 6 -> "6" [] d = 7 -> "7"
      [] d = 8 -> "8" [] d = 9 -> "9"

\* str(n) for n >= 0, and the format :02d for 0 <= n.
RECURSIVE Str(_)
Str(n) == IF n < 10 THEN Digit(n) ELSE Str(n \div 10) \o Digit(n % 10)
TwoDigits(n) == IF n < 10 THEN "0" \o Digit(n) ELSE Str(n)

\* GtrDateFormatter._format_date for a certain date: the calendar, then the
\* year, the month if there is one, and the day if there are month and day.
FormatDate(date) ==
    (IF date.bc THEN "(BC)" ELSE "(AD)") \o Str(date.year)
    \o (IF date.month # ""
        THEN "-" \o TwoDigits(MonthNumber(date.month))
             \o (IF date.day # None THEN "-" \o TwoDigits(date.day) ELSE "")
        ELSE "")

\* GtrDateFormatter.format: visitSimple and visitPhrase.
Format(date) ==
    IF date.kind = "Phrase" THEN "" ELSE FormatDate(date)

\* Event.__bool__: bool(self.date or self.place), on the date object.
EventPresent(e) == e.date # NoDate \/ e.place # ""

\* Event.to_gtr: <<modifier, value>>.
EventToGtr(e) ==
    LET date == IF e.date # NoDate THEN Format(e.date) ELSE ""
    IN IF e.place # "" THEN <<"", <<date, e.place>>>>
       ELSE <<"-", <<date>>>>

\* ------------------------------------------------------- the INDI records

\* An INDI record: its NAME sub-records (type, given, surname), its BIRT and
\* DEAT events, SEX and OCCU.
IndiRecord(i) ==
    CASE i = 1 -> [names |-> <<[type |-> "", given |-> "D", surname |-> "1"]>>,
                   birt |-> NoEvent, deat |-> NoEvent, sex |-> "M", occu |-> ""]
      [] i = 2 -> [names |-> <<>>,
                   birt |-> [date |-> SimpleDate(FALSE, 1895, "DEC", 31),
                            place |-> ""],
                   deat |-> NoEvent, sex |-> "F", occu |-> ""]
      [] i = 3 -> [names |-> <<[type |-> "married", given |-> "", surname |-> "2"],
                               [type |-> "birth", given |-> "B", surname |-> ""]>>,
                   birt |-> [date |-> SimpleDate(FALSE, 1900, "JAN", 1),
                            place |-> "Somewhere"],
                   deat |-> [date |-> PhraseDate("(unknown)"), place |-> ""],
                   sex |-> "", occu |-> "smith"]
      [] OTHER -> [names |-> <<>>, birt |-> NoEvent, deat |-> NoEvent,
                   sex |-> "", occu |-> ""]

NameKeys == <<"maiden", "birth", "", "married">>

\* names = {type: value[:2]}: the last NAME record of a type wins.
NamesGet(names, key) ==
    LET idx == {k \in 1..Len(names) : names[k].type = key}
    IN IF idx = {} THEN <<>>
       ELSE LET k == CHOOSE k \in idx : \A j \in idx : j <= k
            IN <<names[k].given, names[k].surname>>

OrQ(s) == IF s = "" THEN "?" ELSE s

NameField(names) ==
    LET hits == {k \in 1..4 : NamesGet(names, NameKeys[k]) # <<>>}
    IN IF hits = {} THEN <<>>
       ELSE LET k == CHOOSE k \in hits : \A j \in hits : k <= j
                name == NamesGet(names, NameKeys[k])
            IN << <<"name", <<OrQ(name[1]), OrQ(name[2])>>>> >>

EventField(key, e) ==
    IF EventPresent(e)
    THEN << <<key \o EventToGtr(e)[1], EventToGtr(e)[2]>> >>
    ELSE <<>>

\* Person.from_record: the ordered gtr_fields.
FromRecord(r) ==
    NameField(r.names)
    \o EventField("birth", r.birt)
    \o EventField("death", r.deat)
    \o (IF r.sex # "" THEN << <<"sex", IF r.sex = "F" THEN "female" ELSE "male">> >>
        ELSE <<>>)
    \o (IF r.occu # "" THEN << <<"profession", r.occu>> >> ELSE <<>>)

\* -------------------------------------------------------- the FAM records

Marriages == {NoEvent}

FamRecords ==
    [husb : Xrefs \cup {None}, wife : Xrefs \cup {None},
     chil : SeqsUpTo(Xrefs, MaxChil), marr : Marriages]

\* parents of a FAM record: HUSB then WIFE, those present.
RecordParents(rec) ==
    (IF rec.husb # None THEN <<rec.husb>> ELSE <<>>)
    \o (IF rec.wife # None THEN <<rec.wife>> ELSE <<>>)

\* A lookup that resolves the CHIL references only.
ResolvesChildrenOnly(rec) ==
    \A k \in 1..Len(rec.chil) : rec.chil[k] \in id_to_person

\* id_to_person[...] succeeds for every reference of the record.
Resolves(rec) ==
    /\ \A k \in 1..Len(RecordParents(rec)) : RecordParents(rec)[k] \in id_to_person
    /\ \A k \in 1..Len(rec.chil) : rec.chil[k] \in id_to_person

\* A loader that links a family into its first parent only.
LinkParentsFirstOnly(pf, parents, f) ==
    IF parents = <<>> THEN pf
    ELSE [pf EXCEPT ![Head(parents)] = Append(@, f)]

\* for parent in parents: parent.parent_families.append(family)
RECURSIVE LinkParents(_, _, _)
LinkParents(pf, parents, f) ==
    IF parents = <<>> THEN pf
    ELSE LinkParents([pf EXCEPT ![Head(parents)] = Append(@, f)], Tail(parents), f)

\* A loader without the assertion.
ChildFreeUnchecked(cf, child) == TRUE

\* May the child link be made?  assert child.child_family is None
ChildFree(cf, child) == cf[child] = None

\* for child in children: assert ...; child.child_family = family
\* Stops at the first failing assertion, keeping the links made before it.
RECURSIVE LinkChildren(_, _, _)
LinkChildren(cf, children, f) ==
    IF children = <<>> THEN [ok |-> TRUE, cf |-> cf]
    ELSE IF ~ChildFree(cf, Head(children)) THEN [ok |-> FALSE, cf |-> cf]
    ELSE LinkChildren([cf EXCEPT ![Head(children)] = f], Tail(children), f)

\* ------------------------------------------------------------- the graph

\* The walks count the generations they are away from their first person.
\* No walk over an acyclic graph gets NumPersons generations away, and no
\* walk under a finite budget gets further than the budget, which is at most
\* 2 * MaxLimit after the adjustment of main.  A walk that gets further is
\* in a cycle without a budget: it ends in Python's RecursionError.
MaxRecursion == Max(NumPersons, 2 * MaxLimit)
Unwound == 2 * MaxRecursion + 2
Raised(n) == n >= Unwound

\* Person.count_ancestor_generations
RECURSIVE count_ancestor_generations(_, _)
\* A counter that follows the first parent only.
AncestorFirst(num, parents, depth) ==
    IF parents = <<>> THEN num
    ELSE count_ancestor_generations(Head(parents), depth)

\* num = max(num, parent.count_ancestor_generations()), over the parents.
RECURSIVE AncestorMax(_, _, _)
AncestorMax(num, parents, depth) ==
    IF parents = <<>> THEN num
    ELSE LET n == count_ancestor_generations(Head(parents), depth)
         IN AncestorMax(Max(num, n), Tail(parents), depth)

count_ancestor_generations(person, depth) ==
    IF depth > MaxRecursion THEN Unwound
    ELSE IF child_family[person] # None
         THEN AncestorMax(-1, families[child_family[person]].parents, depth + 1) + 1
         ELSE 0

\* The children that count_descendant_generations visits: every child of
\* every family of parent_families, in order.
AllChildren(person) ==
    Flatten([k \in 1..Len(parent_families[person]) |->
                families[parent_families[person][k]].children])

\* Person.count_descendant_generations
RECURSIVE count_descendant_generations(_, _)
\* num = max(num, child.count_descendant_generations()), over the children.
RECURSIVE DescendantMax(_, _, _)
DescendantMax(num, children, depth) ==
    IF children = <<>> THEN num
    ELSE LET n == count_descendant_generations(Head(children), depth)
         IN DescendantMax(Max(num, n), Tail(children), depth)

count_descendant_generations(person, depth) ==
    IF depth > MaxRecursion THEN Unwound
    ELSE DescendantMax(-1, AllChildren(person), depth + 1) + 1

\* ------------------------------------------------------- output formatter

\* One piece of the output: a person node (g, p, c) with its id and fields,
\* the opening of a family branch (sandclock, parent, child) with its
\* options, or the closing brace of a branch.
Piece(node, id, body) == [node |-> node, id |-> id, body |-> body]
Close == Piece("}", None, <<>>)
RecursionError == Piece("RecursionError", None, <<>>)

\* Person.to_gtr(node_type, include_id=True)
PersonFields(person) == gtr_fields[person]
to_gtr(person, node_type) == Piece(node_type, person, PersonFields(person))

\* Family.make_gtr_options: the id and, for a present marriage, its field.
make_gtr_options(f) ==
    IF EventPresent(families[f].marriage)
    THEN <<"marriage" \o EventToGtr(families[f].marriage)[1],
           EventToGtr(families[f].marriage)[2]>>
    ELSE <<>>

Open(node, f) == Piece(node, families[f].id, make_gtr_options(f))

\* --------------------------------------------------------- tree serializer

\* A lookup that takes the family that was linked last.
get_last_parent_family(person) ==
    IF parent_families[person] # <<>>
    THEN parent_families[person][Len(parent_families[person])] ELSE None

\* get_parent_family: the first parent family, or None.
get_parent_family(person) ==
    IF parent_families[person] # <<>> THEN parent_families[person][1] ELSE None

\* "len(person.parent_families) > 1": get_parent_family prints its warning.
MultipleParentFamilies(person) == Len(parent_families[person]) > 1

\* A walk that hands its budget down without counting the generation.
SameBudget(max_generations) == max_generations

\* max(-1, max_generations - 1)
NextBudget(max_generations) == Max(-1, max_generations - 1)

\* A limit test that takes the unlimited budget for the exhausted one.
LimitReachedBelow(max_generations) == max_generations < 0

\* "max_generations == 0": the recursion limit is reached.
LimitReached(max_generations) == max_generations = 0

\* A comparison that never finds the person, as one against another kind
\* of object would.
NeverSame(a, b) == FALSE

\* "parent != person" / "child != person" of the dataclass Person: the
\* persons of a loaded graph have pairwise different ids, so the generated
\* __eq__ decides on the id.
SamePerson(a, b) == a = b

Others(persons, person) == SelectSeq(persons, LAMBDA q : ~SamePerson(q, person))

RECURSIVE child_node(_, _, _)
child_node(person, max_generations, depth) ==
    IF depth > MaxRecursion THEN <<RecursionError>>
    ELSE LET parent_family == get_parent_family(person)
         IN IF parent_family = None \/ LimitReached(max_generations)
            THEN <<to_gtr(person, "c")>>
            ELSE LET fam == families[parent_family]
                     partners == Others(fam.parents, person)
                 IN <<Open("child", parent_family), to_gtr(person, "g")>>
                    \o [k \in 1..Len(partners) |-> to_gtr(partners[k], "p")]
                    \o Flatten([k \in 1..Len(fam.children) |->
                           child_node(fam.children[k],
                                      NextBudget(max_generations), depth + 1)])
                    \o <<Close>>

\* The sibling listing of _parent_node_body.
SiblingLeaves(person, include_siblings) ==
    IF include_siblings
    THEN LET sibs == Others(families[child_family[person]].children, person)
         IN [k \in 1..Len(sibs) |-> to_gtr(sibs[k], "c")]
    ELSE <<>>

\* A walk that hands the focal person's own flag up to the ancestors.
FlagHereOwn(include_siblings, include_ancestor_siblings) == include_siblings

\* The flags that _parent_node_body hands to the next level.
FlagHere(include_siblings, include_ancestor_siblings) == include_ancestor_siblings

RECURSIVE parent_node(_, _, _, _, _)
RECURSIVE parent_node_body(_, _, _, _, _)
parent_node(person, include_siblings, include_ancestor_siblings, max_generations, depth) ==
    IF depth > MaxRecursion THEN <<RecursionError>>
    ELSE IF child_family[person] = None \/ LimitReached(max_generations)
         THEN <<to_gtr(person, "p")>>
         ELSE <<Open("parent", child_family[person]), to_gtr(person, "g")>>
              \o parent_node_body(person, include_siblings,
                                  include_ancestor_siblings,
                                  NextBudget(max_generations), depth)
              \o <<Close>>

\* A body that lists the siblings although the budget is used up.
parent_node_body_listing(person, include_siblings, include_ancestor_siblings, max_generations, depth) ==
    IF child_family[person] = None THEN <<>>
    ELSE (IF LimitReached(max_generations) THEN <<>>
          ELSE LET parents == families[child_family[person]].parents
               IN Flatten([k \in 1..Len(parents) |->
                      parent_node(parents[k],
                                  FlagHere(include_siblings, include_ancestor_siblings),
                                  include_ancestor_siblings,
                                  max_generations, depth + 1)]))
         \o SiblingLeaves(person, include_siblings)

parent_node_body(person, include_siblings, include_ancestor_siblings, max_generations, depth) ==
    IF child_family[person] # None /\ ~LimitReached(max_generations)
    THEN LET parents == families[child_family[person]].parents
         IN Flatten([k \in 1..Len(parents) |->
                parent_node(parents[k],
                            FlagHere(include_siblings, include_ancestor_siblings),
                            include_ancestor_siblings,
                            max_generations, depth + 1)])
            \o SiblingLeaves(person, include_siblings)
    ELSE <<>>

\* The opening piece of sandclock: with the child family's options, if any.
SandclockOpen(person) ==
    IF child_family[person] # None THEN Open("sandclock", child_family[person])
    ELSE Piece("sandclock", None, <<>>)

DescendantPart(person, max_descendant_generations) ==
    child_node(person, max_descendant_generations, 0)

AncestorPart(person, include_siblings, include_ancestor_siblings, max_ancestor_generations) ==
    parent_node_body(person, include_siblings, include_ancestor_siblings,
                     max_ancestor_generations, 0)

\* A sandclock that walks each direction with the other direction's budget.
sandclock_crossed(person, include_siblings, include_ancestor_siblings, max_ancestor_generations, max_descendant_generations) ==
    <<SandclockOpen(person)>>
    \o DescendantPart(person, max_ancestor_generations)
    \o AncestorPart(person, include_siblings, include_ancestor_siblings,
                    max_descendant_generations)
    \o <<Close>>

sandclock(person, include_siblings, include_ancestor_siblings, max_ancestor_generations, max_descendant_generations) ==
    <<SandclockOpen(person)>>
    \o DescendantPart(person, max_descendant_generations)
    \o AncestorPart(person, include_siblings, include_ancestor_siblings,
                    max_ancestor_generations)
    \o <<Close>>

\* The WARNING lines of _child_node(person, max_generations), for a walk
\* that may be limit calls deep: n lines are printed when the walk returns
\* or, with raised, when it gets deeper.  get_parent_family is called once
\* in every call of _child_node, and the exception ends the loop over the
\* children.
RECURSIVE WalkLookups(_, _, _, _)
RECURSIVE ChildrenLookups(_, _, _, _, _)
WalkLookups(person, max_generations, depth, limit) ==
    IF depth > limit THEN [n |-> 0, raised |-> TRUE]
    ELSE LET own == IF MultipleParentFamilies(person) THEN 1 ELSE 0
             parent_family == get_parent_family(person)
         IN IF parent_family = None \/ LimitReached(max_generations)
            THEN [n |-> own, raised |-> FALSE]
            ELSE ChildrenLookups(families[parent_family].children,
                                 NextBudget(max_generations), depth + 1,
                                 limit, own)

ChildrenLookups(children, max_generations, depth, limit, n) ==
    IF children = <<>> THEN [n |-> n, raised |-> FALSE]
    ELSE LET w == WalkLookups(Head(children), max_generations, depth, limit)
         IN IF w.raised THEN [n |-> n + w.n, raised |-> TRUE]
            ELSE ChildrenLookups(Tail(children), max_generations, depth,
                                 limit, n + w.n)

\* The count of warnings saturates at MaxWarnings, which is more than a
\* walk that returns can print: such a walk is at most MaxRecursion deep
\* with at most MaxChil children in a family.
MaxWarnings == MaxChil ^ (MaxRecursion + 1)

\* The WARNING lines of the descendant walk, up to MaxWarnings.  A walk that
\* does not return goes round a cycle of at most NumPersons persons until
\* the interpreter's recursion limit (1000 frames by default).  The lines it
\* prints before it is in the cycle and in the first lap are all printed
\* within MaxRecursion calls; if 2 * NumPersons more calls, which hold a
\* whole lap, print more lines, then every lap prints and the walk prints
\* more than MaxWarnings lines, and if not, no lap prints any.
Warnings(person, max_generations) ==
    LET w == WalkLookups(person, max_generations, 0, MaxRecursion)
    IN IF ~w.raised THEN w.n
       ELSE IF WalkLookups(person, max_generations, 0,
                           MaxRecursion + 2 * NumPersons).n > w.n
            THEN MaxWarnings
            ELSE w.n

HasRecursionError(out) == \E k \in 1..Len(out) : out[k] = RecursionError

\* ------------------------------------------------- dynamic generation limits

\* A guard that lets no unused budget through.
TransfersNegative(remaining) == remaining < 0

\* "if remaining:" guards the increase.
Transfers(remaining) == remaining # 0

\* A policy that takes a limit that is just met for a broken one.
RebalanceOnMet(dynamic, max_anc, max_desc, num_anc, num_desc) ==
    IF ~dynamic THEN <<max_anc, max_desc>>
    ELSE IF (num_anc >= max_anc) = (num_desc >= max_desc) THEN <<max_anc, max_desc>>
    ELSE IF num_anc >= max_anc
         THEN <<max_anc + (max_desc - num_desc), max_desc>>
         ELSE <<max_anc, max_desc + (max_anc - num_anc)>>

\* The limit adjustment of main: <<max_ancestor_generations,
\* max_descendant_generations>> after it.
Rebalance(dynamic, max_anc, max_desc, num_anc, num_desc) ==
    IF ~dynamic THEN <<max_anc, max_desc>>
    ELSE IF (num_anc > max_anc) = (num_desc > max_desc) THEN <<max_anc, max_desc>>
    ELSE IF num_anc > max_anc
         THEN LET remaining == max_desc - num_desc
              IN IF Transfers(remaining) THEN <<max_anc + remaining, max_desc>>
                 ELSE <<max_anc, max_desc>>
         ELSE LET remaining == max_anc - num_anc
              IN IF Transfers(remaining) THEN <<max_anc, max_desc + remaining>>
                 ELSE <<max_anc, max_desc>>

\* ------------------------------------------------------------------ state

NoArgs ==
    [xref_id |-> None, siblings |-> FALSE, ancestor_siblings |-> FALSE,
     max_ancestor_generations |-> -1, max_descendant_generations |-> -1,
     dynamic_generation_limits |-> FALSE]

NoLimits == [ancestor |-> -1, descendant |-> -1]

Init ==
    /\ pc = "pass1"
    /\ id_to_person = {}
    /\ gtr_fields = [p \in Persons |-> <<>>]
    /\ families = <<>>
    /\ parent_families = [p \in Persons |-> <<>>]
    /\ child_family = [p \in Persons |-> None]
    /\ args = NoArgs
    /\ limits = NoLimits
    /\ output = <<>>
    /\ warnings = 0

\* First pass of load_gedcom: a Person for every INDI record.
FirstPass ==
    /\ pc = "pass1"
    /\ id_to_person' = Persons
    /\ gtr_fields' = [p \in Persons |-> FromRecord(IndiRecord(p))]
    /\ pc' = "pass2"
    /\ UNCHANGED <<families, parent_families, child_family, args, limits, output,
                   warnings>>

\* Second pass of load_gedcom, one FAM record: resolve the references (a
\* KeyError ends the load), create the Family, link the parents, link the
\* children (a failing assertion ends the load).
SecondPass(rec) ==
    /\ pc = "pass2"
    /\ Len(families) < MaxFams
    /\ IF ~Resolves(rec)
       THEN /\ pc' = "load_failed"
            /\ UNCHANGED <<families, parent_families, child_family>>
       ELSE LET f == Len(families) + 1
                family == [id |-> f, parents |-> RecordParents(rec),
                           children |-> rec.chil, marriage |-> rec.marr]
                linked == LinkChildren(child_family, rec.chil, f)
            IN /\ families' = Append(families, family)
               /\ parent_families' = LinkParents(parent_families, family.parents, f)
               /\ child_family' = linked.cf
               /\ pc' = IF linked.ok THEN "pass2" ELSE "load_failed"
    /\ UNCHANGED <<id_to_person, gtr_fields, args, limits, output, warnings>>

\* The FAM records are exhausted: load_gedcom returns.
LoadReturns ==
    /\ pc = "pass2"
    /\ pc' = "loaded"
    /\ UNCHANGED <<graph, args, limits, output, warnings>>

\* main, "except Exception": error(...) exits without output.
LoadError ==
    /\ pc = "load_failed"
    /\ pc' = "exit_error"
    /\ UNCHANGED <<graph, args, limits, output, warnings>>

\* The FAM records range over every assignment of the persons, so the graphs
\* are closed under renaming the persons: the first person stands for any.
FocalIds == {1}

MainArgs ==
    [xref_id : FocalIds, siblings : BOOLEAN, ancestor_siblings : BOOLEAN,
     max_ancestor_generations : Limits, max_descendant_generations : Limits,
     dynamic_generation_limits : BOOLEAN]

\* num_ancestor_generations, num_descendant_generations of main.
NumAncestor(person) == count_ancestor_generations(person, 0)
NumDescendant(person) == count_descendant_generations(person, 0)

\* The counters of the dynamic branch end in a RecursionError.
CountRaises(a) ==
    /\ a.dynamic_generation_limits
    /\ (Raised(NumAncestor(a.xref_id)) \/ Raised(NumDescendant(a.xref_id)))

\* The limits main passes to sandclock for the command line a.
EffectiveLimits(a) ==
    IF a.dynamic_generation_limits
    THEN Rebalance(TRUE, a.max_ancestor_generations, a.max_descendant_generations,
                   NumAncestor(a.xref_id), NumDescendant(a.xref_id))
    ELSE <<a.max_ancestor_generations, a.max_descendant_generations>>

\* main after a successful load: look the person up, adjust the limits,
\* write the sandclock.
Main(a) ==
    /\ pc = "loaded"
    /\ args' = a
    /\ IF a.xref_id \notin id_to_person
       THEN /\ pc' = "exit_error"
            /\ UNCHANGED <<limits, output, warnings>>
       ELSE IF CountRaises(a)
       THEN /\ pc' = "crashed"
            /\ UNCHANGED <<limits, output, warnings>>
       ELSE LET lim == EffectiveLimits(a)
                out == sandclock(a.xref_id, a.siblings, a.ancestor_siblings,
                                 lim[1], lim[2])
            IN /\ limits' = [ancestor |-> lim[1], descendant |-> lim[2]]
               /\ warnings' = Warnings(a.xref_id, lim[2])
               /\ IF HasRecursionError(out)
                  THEN pc' = "crashed" /\ output' = <<>>
                  ELSE pc' = "done" /\ output' = out
    /\ UNCHANGED graph

Next ==
    \/ FirstPass
    \/ \E rec \in FamRecords : SecondPass(rec)
    \/ LoadReturns
    \/ LoadError
    \/ \E a \in MainArgs : Main(a)

Spec == Init /\ [][Next]_vars

\* The loader alone: the two passes and the way main leaves on a failure.
LoadNext ==
    \/ FirstPass
    \/ \E rec \in FamRecords : SecondPass(rec)
    \/ LoadReturns
    \/ LoadError

LoadSpec == Init /\ [][LoadNext]_vars

\* ------------------------------------------------------- reading the graph

FamilyIds == 1..Len(families)

\* How often x occurs in the sequence s.
Occurrences(s, x) == Cardinality({k \in 1..Len(s) : s[k] = x})

Elements(s) == {s[k] : k \in 1..Len(s)}

\* How often person p is listed as a child, over all families.
ChildListings(p) ==
    Cardinality({fk \in FamilyIds \X (1..MaxChil) :
                    /\ fk[2] <= Len(families[fk[1]].children)
                    /\ families[fk[1]].children[fk[2]] = p})

\* The parents of p: the parents of its child family.
ParentsOf(p) ==
    IF child_family[p] = None THEN {} ELSE Elements(families[child_family[p]].parents)

RECURSIVE AncestorsWithin(_, _)
AncestorsWithin(S, n) ==
    IF n = 0 THEN S
    ELSE AncestorsWithin(S \cup UNION {ParentsOf(q) : q \in S}, n - 1)

\* Everyone reachable from p over child_family -> parents links.
AncestorsOf(p) == AncestorsWithin(ParentsOf(p), NumPersons)

\* ------------------------------------------------------ reading the output

IsOpen(x) == x.node \in {"sandclock", "parent", "child"}
IsPerson(x) == x.node \in {"g", "p", "c"}

\* The number of branches that enclose piece i of out.
Level(out, i) ==
    Cardinality({j \in 1..(i - 1) : IsOpen(out[j])})
    - Cardinality({j \in 1..(i - 1) : out[j] = Close})

\* The last piece of the descendant part: the node that follows the opening
\* of the sandclock ends there.
DescLast(out) ==
    CHOOSE i \in 2..Len(out) :
        /\ Level(out, i + 1) = 1
        /\ \A j \in 2..(i - 1) : Level(out, j + 1) # 1

DescendantPieces(out) == {i \in 2..DescLast(out) : IsPerson(out[i])}
AncestorPieces(out) ==
    {i \in (DescLast(out) + 1)..(Len(out) - 1) : IsPerson(out[i])}

\* Parent-to-child steps from the focal person down to the person of piece i
\* of the descendant part: a c leaf lies one branch deeper than the g and p
\* nodes of its parents.
GenBelow(out, i) ==
    IF out[i].node = "c" THEN Level(out, i) - 1 ELSE Level(out, i) - 2

\* Child-to-parent steps from the focal person up to the generation of piece
\* i of the ancestor part: a p leaf lies one branch higher than the g node
\* and the c leaves (siblings) of its children.
StepsAbove(out, i) ==
    IF out[i].node = "p" THEN Level(out, i) ELSE Level(out, i) - 1

\* The closing piece of the branch that opens at piece j.
BranchEnd(out, j) ==
    CHOOSE k \in (j + 1)..Len(out) :
        /\ Level(out, k + 1) = Level(out, j)
        /\ \A m \in (j + 1)..(k - 1) : Level(out, m + 1) # Level(out, j)

\* The ids of the c leaves that lie directly inside the branch of pieces
\* lo..hi, whose pieces are at level lvl, in the order of the output.
Listing(out, lo, hi, lvl) ==
    LET at == SelectSeq([k \in 1..Len(out) |-> k],
                        LAMBDA k : /\ lo < k /\ k < hi
                                   /\ out[k].node = "c"
                                   /\ Level(out, k) = lvl)
    IN [n \in 1..Len(at) |-> out[at[n]].id]

\* The sibling listing of the focal person: the c leaves of the ancestor
\* part that lie directly inside the sandclock.
FocalListing(out) == Listing(out, DescLast(out), Len(out), 1)

\* The parent branches of the ancestor part, each with the person it is
\* about (its g node) and the sibling listing made for that person.
ParentBranches(out) ==
    {j \in (DescLast(out) + 1)..Len(out) : out[j].node = "parent"}
BranchPerson(out, j) == out[j + 1].id
BranchListing(out, j) == Listing(out, j, BranchEnd(out, j), Level(out, j) + 1)

\* The other children of the child family of p, in the family's order.
SiblingsOf(p) ==
    IF child_family[p] = None THEN <<>>
    ELSE SelectSeq(families[child_family[p]].children, LAMBDA q : q # p)

SetMax(S) == CHOOSE x \in S : \A y \in S : y <= x

\* The deepest generation of the descendant part, and the highest
\* generation of an ancestor (p or g) in the ancestor part.
DeepestBelow(out) == SetMax({GenBelow(out, i) : i \in DescendantPieces(out)})
DeepestAbove(out) ==
    SetMax({0} \cup {StepsAbove(out, i) :
                        i \in {k \in AncestorPieces(out) : out[k].node # "c"}})


focal == args.xref_id

\* The configured limits, the actual depths, and which limit is broken.
CfgAnc == args.max_ancestor_generations
CfgDesc == args.max_descendant_generations
ExceedsAnc == NumAncestor(focal) > CfgAnc
ExceedsDesc == NumDescendant(focal) > CfgDesc
SlackAnc == CfgAnc - NumAncestor(focal)
SlackDesc == CfgDesc - NumDescendant(focal)
Dynamic == args.dynamic_generation_limits

\* No person of the graph is their own ancestor.
Acyclic == \A p \in Persons : p \notin AncestorsOf(p)

\* ----------------------------------------------------------------- claims

\* The FAM record that a step of the second pass has just read: the step
\* appended its Family.
ReadsFamily == pc = "pass2" /\ Len(families') = Len(families) + 1
NewChildren == families'[Len(families')].children

\* The record lists a child that already has a child family, from an earlier
\* record or from an earlier CHIL entry of this record.
ListsTakenChild ==
    \E k \in 1..Len(NewChildren) :
        \/ child_family[NewChildren[k]] # None
        \/ \E j \in 1..(k - 1) : NewChildren[j] = NewChildren[k]

\* C1: a family record that lists as a child a person whose child_family is
\* already set makes the load fail, a child_family once set is never
\* overwritten, and after a successful load every person is listed as a child
\* at most once over all families.
C1_DuplicateChildIsFatal ==
    /\ [](pc = "loaded" => \A p \in Persons : ChildListings(p) <= 1)
    /\ [][/\ \A p \in Persons :
                child_family[p] # None => child_family'[p] = child_family[p]
          /\ (ReadsFamily /\ ListsTakenChild) => pc' = "load_failed"]_vars

\* The load has failed on a second record that lists the child of the first
\* record, and that child still belongs to the first family.
C1_Witness ==
    /\ pc = "load_failed"
    /\ Len(families) = 2
    /\ \E p \in Persons :
        /\ p \in Elements(families[1].children)
        /\ p \in Elements(families[2].children)
        /\ child_family[p] = 1

\* C9: after a successful load no person is reachable from themself over
\* child_family -> parents links.
C9_Acyclic == pc = "loaded" => Acyclic

\* C10: after a successful load, family f occurs in p.parent_families as
\* often as p occurs in f.parents, p.child_family is f exactly if p occurs in
\* f.children, and the links name no other family.
C10_LinksConsistent ==
    pc = "loaded" =>
        \A p \in Persons :
            /\ Elements(parent_families[p]) \subseteq FamilyIds
            /\ child_family[p] \in FamilyIds \cup {None}
            /\ \A f \in FamilyIds :
                /\ Occurrences(parent_families[p], f)
                     = Occurrences(families[f].parents, p)
                /\ child_family[p] = f <=> p \in Elements(families[f].children)

\* A loaded graph with a person who is HUSB and WIFE of a family that also
\* has a child: the family is twice in that person's parent_families.
C10_Witness ==
    /\ pc = "loaded"
    /\ \E f \in FamilyIds : \E p \in Persons :
        /\ Occurrences(families[f].parents, p) = 2
        /\ Occurrences(parent_families[p], f) = 2
        /\ families[f].children # <<>>

\* C2: with a budget B >= 0, sandclock renders no person more than B
\* generations below the focal person and no ancestor (nor ancestor's
\* sibling) more than B generations above.
C2_BudgetBoundsDepth ==
    pc = "done" =>
        /\ limits.descendant >= 0 =>
            \A i \in DescendantPieces(output) :
                GenBelow(output, i) <= limits.descendant
        /\ limits.ancestor >= 0 =>
            \A i \in AncestorPieces(output) :
                StepsAbove(output, i) <= limits.ancestor

\* The focal person has grandchildren, the budget is one generation, and the
\* output holds a child of the focal person as a leaf.
C2_Witness ==
    /\ pc = "done"
    /\ ~Dynamic
    /\ limits.descendant = 1
    /\ NumDescendant(focal) = 2
    /\ \E i \in DescendantPieces(output) :
        output[i].node = "c" /\ GenBelow(output, i) = 1

\* C3: with dynamic limits and exactly one direction over its limit, that
\* direction's limit grows by the other direction's slack if the slack is
\* positive, and the other limit stays; with both or neither direction over
\* its limit, and with static limits, the limits are the configured ones.
C3_Rebalancing ==
    pc = "done" =>
        IF ~Dynamic
        THEN limits = [ancestor |-> CfgAnc, descendant |-> CfgDesc]
        ELSE IF ExceedsAnc /\ ~ExceedsDesc
        THEN /\ limits.descendant = CfgDesc
             /\ limits.ancestor = IF SlackDesc > 0 THEN CfgAnc + SlackDesc ELSE CfgAnc
        ELSE IF ExceedsDesc /\ ~ExceedsAnc
        THEN /\ limits.ancestor = CfgAnc
             /\ limits.descendant = IF SlackAnc > 0 THEN CfgDesc + SlackAnc ELSE CfgDesc
        ELSE limits = [ancestor |-> CfgAnc, descendant |-> CfgDesc]

\* Dynamic limits, the focal person has more ancestor generations than the
\* finite limit allows and fewer descendant generations than allowed: the
\* ancestor limit has grown by the descendant slack.
C3_Witness ==
    /\ pc = "done"
    /\ Dynamic
    /\ CfgAnc >= 0
    /\ ExceedsAnc /\ ~ExceedsDesc
    /\ SlackDesc > 0
    /\ limits = [ancestor |-> CfgAnc + SlackDesc, descendant |-> CfgDesc]

\* What sandclock returns for the focal person and the sibling flags of the
\* command line when both limits are -1.
UnlimitedOutput == sandclock(focal, args.siblings, args.ancestor_siblings, -1, -1)

\* C4 as stated, for finite configured limits: with dynamic limits, one
\* direction over its limit and the other direction's slack at least as
\* large as the excess, the output is the unlimited output.
C4_SlackCoversExcess ==
    (/\ pc = "done"
     /\ Dynamic
     /\ CfgAnc >= 0 /\ CfgDesc >= 0
     /\ \/ ExceedsAnc /\ ~ExceedsDesc /\ SlackDesc >= -SlackAnc
        \/ ExceedsDesc /\ ~ExceedsAnc /\ SlackAnc >= -SlackDesc)
    => output = UnlimitedOutput

\* C4, amended: with dynamic limits, one direction's depth above its limit
\* (a limit of -1 counts as a number) and the other direction's slack
\* strictly larger than the excess, the output is the unlimited output.
C4_SlackExceedsExcess ==
    (/\ pc = "done"
     /\ Dynamic
     /\ \/ ExceedsAnc /\ ~ExceedsDesc /\ SlackDesc > -SlackAnc
        \/ ExceedsDesc /\ ~ExceedsAnc /\ SlackAnc > -SlackDesc)
    => output = UnlimitedOutput

\* Dynamic limits, the focal person has one ancestor generation and a limit
\* of none, and the descendant slack is two: the parents are in the output.
C4_Witness ==
    /\ pc = "done"
    /\ Dynamic
    /\ CfgAnc = 0 /\ NumAncestor(focal) = 1
    /\ ~ExceedsDesc /\ SlackDesc = 2
    /\ AncestorPieces(output) # {}
    /\ output = UnlimitedOutput

\* C5: include_siblings decides the sibling listing of the focal person
\* alone and include_ancestor_siblings that of every ancestor: a flag that is
\* off leaves its listings empty, whatever the other flag, and a flag that
\* is on yields the listing of all siblings (as c leaves) wherever the
\* budget lets the listing be made.
C5_SiblingFlags ==
    pc = "done" =>
        /\ ~args.siblings => FocalListing(output) = <<>>
        /\ (args.siblings /\ limits.ancestor # 0)
            => FocalListing(output) = SiblingsOf(focal)
        /\ ~args.ancestor_siblings
            => \A j \in ParentBranches(output) : BranchListing(output, j) = <<>>
        /\ (args.ancestor_siblings /\ limits.ancestor = -1)
            => \A j \in ParentBranches(output) :
                  BranchListing(output, j) = SiblingsOf(BranchPerson(output, j))

\* Without --siblings and with --ancestor-siblings, over an acyclic graph:
\* a parent of the focal person is listed with a sibling.
C5_Witness ==
    /\ pc = "done"
    /\ Acyclic
    /\ ~args.siblings /\ args.ancestor_siblings
    /\ FocalListing(output) = <<>>
    /\ \E j \in ParentBranches(output) :
        /\ BranchPerson(output, j) \in ParentsOf(focal)
        /\ BranchListing(output, j) # <<>>

\* C6: no sibling listing of the output holds the person it is made for,
\* the focal person or an ancestor, and a listing that is made holds every
\* other child of that person's child family, in the family's order.
C6_SiblingExclusion ==
    pc = "done" =>
        /\ focal \notin Elements(FocalListing(output))
        /\ FocalListing(output) \in {<<>>, SiblingsOf(focal)}
        /\ \A j \in ParentBranches(output) :
            /\ BranchPerson(output, j) \notin Elements(BranchListing(output, j))
            /\ BranchListing(output, j)
                 \in {<<>>, SiblingsOf(BranchPerson(output, j))}

\* The focal person is the second of two children and is listed with the
\* first as the only sibling.
C6_Witness ==
    /\ pc = "done"
    /\ child_family[focal] # None
    /\ Len(families[child_family[focal]].children) = 2
    /\ families[child_family[focal]].children[2] = focal
    /\ FocalListing(output) = <<families[child_family[focal]].children[1]>>

\* C7 as stated, for static limits and a focal person with a parent family:
\* with --max-descendant-generations 0 the descendant part is a single leaf
\* and the output still holds a g node of the focal person with all its
\* fields.
C7_GroupNodeKept ==
    (pc = "done" /\ ~Dynamic /\ CfgDesc = 0 /\ get_parent_family(focal) # None) =>
        /\ DescLast(output) = 2
        /\ \E i \in 1..Len(output) :
              output[i] = Piece("g", focal, FromRecord(IndiRecord(focal)))

\* C7, amended: with a descendant budget of 0 the descendant part is the
\* single c leaf of the focal person, with its id and all its fields.
C7_FocalLeafKeepsFields ==
    (pc = "done" /\ limits.descendant = 0) =>
        /\ DescLast(output) = 2
        /\ output[2] = Piece("c", focal, FromRecord(IndiRecord(focal)))

\* A descendant budget of 0 for a focal person with a partner and a child:
\* the output holds the focal person, with name and sex, as a leaf.
C7_Witness ==
    /\ pc = "done"
    /\ ~Dynamic /\ CfgDesc = 0
    /\ limits.descendant = 0
    /\ NumDescendant(focal) = 1
    /\ Cardinality(Elements(families[get_parent_family(focal)].parents)) = 2
    /\ output[2].node = "c" /\ output[2].id = focal
    /\ Len(output[2].body) = 2

\* The persons that the descendant part shows as c or g: the focal person
\* and its rendered descendants.
RenderedBelow(out) ==
    {out[i].id : i \in {k \in DescendantPieces(out) : out[k].node # "p"}}

\* C8 as stated, for acyclic graphs: with a budget of -1 the deepest
\* rendered descendant lies count_descendant_generations below, and the
\* deepest rendered ancestor count_ancestor_generations above, the focal
\* person.
C8_UnlimitedDepthIsActual ==
    (pc = "done" /\ Acyclic) =>
        /\ limits.descendant = -1 => DeepestBelow(output) = NumDescendant(focal)
        /\ limits.ancestor = -1 => DeepestAbove(output) = NumAncestor(focal)

\* C8, amended: the ancestor side as stated; the descendant side as stated
\* when no person shown in the descendant part has more than one parent
\* family, and never deeper than count_descendant_generations otherwise.
C8_UnlimitedDepthFirstFamily ==
    pc = "done" =>
        /\ limits.ancestor = -1 => DeepestAbove(output) = NumAncestor(focal)
        /\ limits.descendant = -1 =>
            /\ DeepestBelow(output) <= NumDescendant(focal)
            /\ (\A p \in RenderedBelow(output) : Len(parent_families[p]) <= 1)
                => DeepestBelow(output) = NumDescendant(focal)

\* Unlimited budgets for a focal person between a parent and a child, each
\* shown one generation away.
C8_Witness ==
    /\ pc = "done"
    /\ limits = [ancestor |-> -1, descendant |-> -1]
    /\ NumAncestor(focal) = 1 /\ DeepestAbove(output) = 1
    /\ NumDescendant(focal) = 1 /\ DeepestBelow(output) = 1

\* The FAM records with a HUSB, WIFE or CHIL reference that no INDI record
\* carries.
DanglingRecords ==
    {rec \in FamRecords :
        \/ rec.husb = Dangling
        \/ rec.wife = Dangling
        \/ \E k \in 1..Len(rec.chil) : rec.chil[k] = Dangling}

\* The persons that family f names as a parent or a child.
Members(f) == Elements(families[f].parents) \cup Elements(families[f].children)

\* C11: a FAM record with a reference that is not in the person index ends
\* the load without a Family for it and with the links of every person as
\* they were; no Family ever names a person outside the index; a failed load
\* is never followed by a returned graph, and main leaves with an error and
\* without output.
C11_DanglingReferenceIsFatal ==
    /\ [](\A f \in FamilyIds : Members(f) \subseteq id_to_person)
    /\ [](pc \in {"load_failed", "exit_error"} => output = <<>>)
    /\ [][/\ pc = "pass2" =>
                \A rec \in DanglingRecords :
                    SecondPass(rec) =>
                        /\ pc' = "load_failed"
                        /\ UNCHANGED <<families, parent_families, child_family>>
          /\ pc = "load_failed" => (pc' = "exit_error" /\ output' = <<>>)]_vars

\* main has left with an error and without output after a first family that
\* was linked completely: the second FAM record was the one that failed, and
\* it left no Family, so it failed on a reference.
C11_Witness ==
    /\ pc = "exit_error"
    /\ output = <<>>
    /\ Len(families) = 1
    /\ families[1].parents # <<>>
    /\ families[1].children # <<>>
    /\ \A k \in 1..Len(families[1].children) :
        /\ child_family[families[1].children[k]] = 1
        /\ Occurrences(families[1].children, families[1].children[k]) = 1

\* The child branches of the descendant part, each with the family it
\* opens, the person it is about (its g node), the partners it lists (its p
\* leaves) and the children it holds (c leaves and nested child branches).
ChildBranches(out) == {j \in 2..DescLast(out) : out[j].node = "child"}
BranchFamily(out, j) == out[j].id
BranchPartners(out, j) ==
    LET end == BranchEnd(out, j)
        lvl == Level(out, j) + 1
        at == SelectSeq([n \in 1..(end - 1 - j) |-> j + n],
                        LAMBDA k : /\ out[k].node = "p"
                                   /\ Level(out, k) = lvl)
    IN [n \in 1..Len(at) |-> out[at[n]].id]
BranchChildren(out, j) ==
    LET end == BranchEnd(out, j)
        lvl == Level(out, j) + 1
        at == SelectSeq([n \in 1..(end - 1 - j) |-> j + n],
                        LAMBDA k : /\ out[k].node \in {"c", "child"}
                                   /\ Level(out, k) = lvl)
    IN [n \in 1..Len(at) |->
          IF out[at[n]].node = "c" THEN out[at[n]].id ELSE out[at[n] + 1].id]

\* C12: get_parent_family yields the first entry of parent_families, or
\* None for an empty list; a person with several parent families costs a
\* warning per lookup and nothing else; every child branch of the output
\* opens the first parent family of its person and holds the other parents
\* and the children of that family and nobody else, so that everyone in the
\* descendant part is the focal person or belongs to the first parent family
\* of a person that is shown there.
C12_FirstParentFamilyOnly ==
    /\ pc \in {"loaded", "done"} =>
        \A p \in Persons :
            get_parent_family(p)
              = IF Len(parent_families[p]) = 0 THEN None
                ELSE Head(parent_families[p])
    /\ pc = "done" =>
        /\ warnings = Cardinality({i \in DescendantPieces(output) :
                                      /\ output[i].node # "p"
                                      /\ Len(parent_families[output[i].id]) > 1})
        /\ \A j \in ChildBranches(output) :
            LET person == BranchPerson(output, j)
                f == BranchFamily(output, j)
            IN /\ f = Head(parent_families[person])
               /\ BranchPartners(output, j)
                    = SelectSeq(families[f].parents, LAMBDA q : q # person)
               /\ BranchChildren(output, j) = families[f].children
        /\ \A i \in DescendantPieces(output) :
            \/ output[i].id = focal
            \/ \E p \in RenderedBelow(output) :
                /\ parent_families[p] # <<>>
                /\ output[i].id \in Members(Head(parent_families[p]))

\* The focal person has a child in its first family and a second family
\* with a partner or a child who belongs to that family alone: with an
\* unlimited descendant budget the output is written after one warning, and
\* its descendant part holds the first family's child and not that person.
C12_Witness ==
    /\ pc = "done"
    /\ limits.descendant = -1
    /\ Len(parent_families[focal]) = 2
    /\ parent_families[focal][1] # parent_families[focal][2]
    /\ warnings = 1
    /\ LET f1 == parent_families[focal][1]
           f2 == parent_families[focal][2]
       IN /\ families[f1].children # <<>>
          /\ \E q \in Members(f2) \ (Members(f1) \cup {focal}) :
                \A i \in DescendantPieces(output) : output[i].id # q
          /\ \E i \in DescendantPieces(output) :
                output[i].id \in Elements(families[f1].children)

\* The name field of a person's gtr_fields: its given and surname parts, or
\* the empty tuple when there is no such field.
NameOf(p) ==
    LET at == {k \in 1..Len(gtr_fields[p]) : gtr_fields[p][k][1] = "name"}
    IN IF at = {} THEN <<>> ELSE gtr_fields[p][CHOOSE k \in at : TRUE][2]

\* C13: every person that the first pass has created has a name field whose
\* given part and surname part are not empty.
C13_NameNeverOmitted ==
    \A p \in id_to_person :
        /\ NameOf(p) # <<>>
        /\ NameOf(p)[1] # "" /\ NameOf(p)[2] # ""

\* The two parts of an output: the descendant part is the node that follows
\* the opening of the sandclock, the ancestor part is what lies between it
\* and the closing brace of the sandclock.
DescendantOf(out) == SubSeq(out, 2, DescLast(out))
AncestorOf(out) == SubSeq(out, DescLast(out) + 1, Len(out) - 1)

\* What sandclock returns for the focal person with the descendant budget of
\* the output, no ancestor budget and both sibling flags off; and with the
\* ancestor budget and the flags of the output and no descendant budget.
\* Neither of the two walks that differ from the output's can fail.
SameBelow == sandclock(focal, FALSE, FALSE, 0, limits.descendant)
SameAbove ==
    sandclock(focal, args.siblings, args.ancestor_siblings, limits.ancestor, 0)

\* C14: the descendant part of the output is the descendant part of the
\* output for the same descendant budget without ancestors and siblings, so
\* it is the same for every ancestor budget and every pair of sibling flags;
\* the ancestor part is the ancestor part of the output for the same
\* ancestor budget and flags and a descendant budget of 0, so it is the same
\* for every descendant budget.
C14_BudgetsIndependent ==
    pc = "done" =>
        /\ DescendantOf(output) = DescendantOf(SameBelow)
        /\ AncestorOf(SameBelow) = <<>>
        /\ AncestorOf(output) = AncestorOf(SameAbove)
        /\ Len(DescendantOf(SameAbove)) = 1

\* Different budgets in the two directions and both sibling flags on, for
\* a focal person between a parent and a child in an acyclic graph: the
\* output has a child branch below and a parent above.
C14_Witness ==
    /\ pc = "done"
    /\ Acyclic
    /\ args.siblings /\ args.ancestor_siblings
    /\ limits.ancestor = 1 /\ limits.descendant = -1
    /\ ChildBranches(output) # {}
    /\ \E i \in AncestorPieces(output) :
        output[i].node = "p" /\ output[i].id \in ParentsOf(focal)

\* C15: main never ends in the RecursionError of a walk that does not
\* return.
C15_WalksReturn == pc # "crashed"

\* The parents that the branch opening at piece j holds: its p leaves and
\* the persons of its nested parent branches, in the order of the output.
\* Piece 1 opens the sandclock, whose person is the focal person.
BranchParents(out, j) ==
    LET end == BranchEnd(out, j)
        lvl == Level(out, j) + 1
        at == SelectSeq([n \in 1..(end - 1 - j) |-> j + n],
                        LAMBDA k : /\ out[k].node \in {"p", "parent"}
                                   /\ Level(out, k) = lvl)
    IN [n \in 1..Len(at) |->
          IF out[at[n]].node = "p" THEN out[at[n]].id ELSE out[at[n] + 1].id]

\* The parents of p in the order of its child family.
ParentSeq(p) ==
    IF child_family[p] = None THEN <<>> ELSE families[child_family[p]].parents

\* The finite ancestor budget N of the output bounds the ancestor part: no
\* ancestor above level N; a branch for a person at level k < N holds that
\* person's parents and, if the flag is on, all its siblings; a branch at
\* level N holds its g node alone; the focal person's parents and siblings
\* are there exactly if N > 0 (the siblings if the flag is on as well).
AncestorLevels ==
    LET N == limits.ancestor
    IN /\ \A i \in AncestorPieces(output) : StepsAbove(output, i) <= N
       /\ N = 0 => AncestorOf(output) = <<>>
       /\ N > 0 =>
            /\ BranchParents(output, 1) = ParentSeq(focal)
            /\ FocalListing(output)
                 = IF args.siblings THEN SiblingsOf(focal) ELSE <<>>
       /\ \A j \in ParentBranches(output) :
            LET k == Level(output, j)
                person == BranchPerson(output, j)
            IN /\ k <= N
               /\ k = N => BranchEnd(output, j) = j + 2
               /\ k < N =>
                    /\ BranchParents(output, j) = ParentSeq(person)
                    /\ BranchListing(output, j)
                         = IF args.ancestor_siblings THEN SiblingsOf(person)
                           ELSE <<>>

\* C16 as stated: with a finite ancestor budget N the ancestor part is
\* bounded as above, and with N = 1 every parent of the focal person is
\* rendered as a parent branch that holds its g node alone.
C16_ParentsAreBranches ==
    (pc = "done" /\ limits.ancestor >= 0) =>
        /\ AncestorLevels
        /\ limits.ancestor = 1 =>
            \A q \in ParentsOf(focal) :
                \E j \in ParentBranches(output) :
                    /\ Level(output, j) = 1
                    /\ BranchPerson(output, j) = q
                    /\ BranchEnd(output, j) = j + 2

\* C16, amended: with a finite ancestor budget N the ancestor part is
\* bounded as above, and with N = 1 the ancestor part is, for every parent
\* of the focal person in order, a parent branch with the g node alone if
\* the parent has a child family and a p leaf if it has none, followed by
\* the focal person's siblings if include_siblings is on.
C16_AncestorLevels ==
    (pc = "done" /\ limits.ancestor >= 0) =>
        /\ AncestorLevels
        /\ limits.ancestor = 1 =>
            AncestorOf(output)
              = Flatten([n \in 1..Len(ParentSeq(focal)) |->
                    LET q == ParentSeq(focal)[n]
                    IN IF child_family[q] # None
                       THEN <<Open("parent", child_family[q]), to_gtr(q, "g"), Close>>
                       ELSE <<to_gtr(q, "p")>>])
                \o (IF args.siblings /\ child_family[focal] # None
                    THEN [n \in 1..Len(SiblingsOf(focal)) |->
                            to_gtr(SiblingsOf(focal)[n], "c")]
                    ELSE <<>>)

\* An ancestor budget of 1 for a focal person with a parent who has a parent
\* of their own, in an acyclic graph: the parent is a branch with its g node
\* alone, and the grandparent is not in the output.
C16_Witness ==
    /\ pc = "done"
    /\ Acyclic
    /\ ~Dynamic /\ CfgAnc = 1
    /\ NumAncestor(focal) = 2
    /\ \E j \in ParentBranches(output) :
        /\ BranchPerson(output, j) \in ParentsOf(focal)
        /\ BranchEnd(output, j) = j + 2
        /\ \A i \in AncestorPieces(output) :
            output[i].id \notin ParentsOf(BranchPerson(output, j))

\* C17: the limits that main hands to sandclock are never more restrictive
\* than the configured ones: an unlimited limit is still unlimited and a
\* finite limit is not lower.
C17_NeverMoreRestrictive ==
    pc = "done" =>
        /\ CfgAnc = -1 => limits.ancestor = -1
        /\ CfgAnc >= 0 => limits.ancestor >= CfgAnc
        /\ CfgDesc = -1 => limits.descendant = -1
        /\ CfgDesc >= 0 => limits.descendant >= CfgDesc

====
